---- MODULE Spec2Model ----
(***************************************************************************)
(* Model of the prayer-time strategy resolution (AthanService and its two  *)
(* strategies) and of the Hijri calendar synchronisation (HijriService).   *)
(***************************************************************************)
EXTENDS Integers, Sequences, FiniteSets, TLC

VARIABLES
    \* ---- AthanService (strategy resolution) ----
    strategies,     \* AthanService.strategies, set by the constructor
    epc,            \* position of the service call: "idle" | "awaiting" | "returned"
    req,            \* the call in progress or last made: [op, name, arg]
    params,         \* the payload object of that call (mutated in place)
    selected,       \* strategy whose getPrayerTimes was executed, or "none"
    err,            \* error the call failed with, or "none"
    httpCalls,      \* upstream requests issued by the call, in order
    \* ---- HijriService (calendar synchronisation) ----
    pc,             \* position of the sync run
    gregoYear,      \* argument of updateOfficialHijriCalendar
    month,          \* loop counter of fetchMonthlyAnnouncements / write loop
    results,        \* fetchMonthlyAnnouncements.results
    answer,         \* updateOfficialHijriCalendar.answer
    ret,            \* outcome of the last finished run
    warned,         \* the 'No calendar found for year' warning was logged
    outstanding,    \* months whose upstream request has no response yet
    issued,         \* months requested from upstream during the run, in order
    received,       \* months whose response arrived during the run, in order
    hijri_calendar, \* rows of table hijri_calendar
    tableBefore,    \* hijri_calendar as it was when the run started
    upstreamRev,    \* revision of the dates the upstream currently announces
    revAt,          \* upstream revision each received response was taken from
    runs,           \* number of sync runs started
    \* ---- DbService (storage) ----
    pool,           \* DbService.pool is set (onModuleInit has run)
    city,           \* rows of table city, in storage order
    athan_school,   \* rows of table athan_school, in storage order
    athan_calendar, \* rows of table athan_calendar, in storage order
    uniqueKeys,     \* athan_calendar has a unique key (school, city, date)
    dpc,            \* position of the DbService call
    dreq,           \* the DbService call in progress or last made
    didx,           \* loop position of insertData / savePrayerCalculationMethods
    dret,           \* value the DbService call returned
    derr,           \* error the DbService call failed with, or "none"
    statements,     \* statements the call passed to pool.execute, in order
    methodsCalls,   \* prayerService.getMethods() calls made by the call
    catalog,        \* the methods listing getMethods() returned
    prev,           \* the previous finished call and the tables it left
    dbCalls,        \* number of DbService calls started
    \* ---- PrayerController.executeStrategy ----
    fpc,            \* position of the request handler
    flow,           \* its arguments: [strategy, data]
    strategy_id,    \* const strategy_id
    city_id,        \* const city_id
    calendar,       \* const calendar
    response,       \* what the handler answered the request with
    fetched,        \* the upstream request the calendar was the answer to
    flows           \* number of requests handled

engineVars == <<strategies, epc, req, params, selected, err, httpCalls>>

syncVars == <<pc, gregoYear, month, results, answer, ret, warned, outstanding,
              issued, received, hijri_calendar, tableBefore, upstreamRev, revAt,
              runs>>

dbVars == <<pool, city, athan_school, athan_calendar, uniqueKeys, dpc, dreq,
            didx, dret, derr, statements, methodsCalls, catalog, prev, dbCalls>>

flowVars == <<fpc, flow, strategy_id, city_id, calendar, response, fetched,
              flows>>

vars == <<strategies, epc, req, params, selected, err, httpCalls,
          pc, gregoYear, month, results, answer, ret, warned, outstanding,
          issued, received, hijri_calendar, tableBefore, upstreamRev, revAt,
          runs,
          pool, city, athan_school, athan_calendar, uniqueKeys, dpc, dreq,
          didx, dret, derr, statements, methodsCalls, catalog, prev, dbCalls,
          fpc, flow, strategy_id, city_id, calendar, response, fetched, flows>>

-----------------------------------------------------------------------------
(* JavaScript values of the payload fields: a tagged record, so that         *)
(* typeof can be told apart from the value.                                   *)

Undefined == [t |-> "undefined", n |-> 0, s |-> ""]

NaN == [t |-> "nan", n |-> 0, s |-> ""]

Num(k) == [t |-> "number", n |-> k, s |-> ""]

Str(x) == [t |-> "string", n |-> 0, s |-> x]

Null == [t |-> "null", n |-> 0, s |-> ""]

\* typeof v === 'number' (NaN is of type number)
TypeofNumber(v) == v.t \in {"number", "nan"}

\* v > 0 for a value already known to be of type number
GreaterThanZero(v) == v.t = "number" /\ v.n > 0

-----------------------------------------------------------------------------
(* Strategy names are sequences of one-character strings.                    *)

UpperCase == <<"A", "B", "C", "D", "E", "F", "G", "H", "I", "J", "K", "L", "M",
               "N", "O", "P", "Q", "R", "S", "T", "U", "V", "W", "X", "Y", "Z">>

LowerCase == <<"a", "b", "c", "d", "e", "f", "g", "h", "i", "j", "k", "l", "m",
               "n", "o", "p", "q", "r", "s", "t", "u", "v", "w", "x", "y", "z">>

Digits == <<"0", "1", "2", "3", "4", "5", "6", "7", "8", "9">>

ToLowerChar(c) ==
    IF \E i \in 1..Len(UpperCase) : UpperCase[i] = c
    THEN LowerCase[CHOOSE i \in 1..Len(UpperCase) : UpperCase[i] = c]
    ELSE c

\* String.prototype.toLowerCase
ToLowerCase(str) == [i \in 1..Len(str) |-> ToLowerChar(str[i])]

\* String.prototype.indexOf: 0-based index of the first occurrence, or -1
IndexOf(str, pat) ==
    LET hits == {i \in 0..(Len(str) - Len(pat)) :
                    SubSeq(str, i + 1, i + Len(pat)) = pat}
    IN  IF hits = {} THEN -1
        ELSE CHOOSE i \in hits : \A j \in hits : i <= j

\* String.prototype.charAt: the character at a 0-based index, or ""
CharAt(str, i) == IF i >= 0 /\ i < Len(str) THEN str[i + 1] ELSE ""

\* parseInt of a string of at most one character
ParseInt(c) ==
    IF \E d \in 1..Len(Digits) : Digits[d] = c
    THEN Num((CHOOSE d \in 1..Len(Digits) : Digits[d] = c) - 1)
    ELSE NaN

AthanApiPrefix == <<"a", "t", "h", "a", "n", "-", "a", "p", "i", "-">>

-----------------------------------------------------------------------------
(* The two strategies.                                                        *)

\* a By-City predicate that validates city and country
CityCanHandleValidated(p) == p.city.t = "string" /\ p.country.t = "string"

CityCanHandle(p) == TRUE

\* a By-Coordinates predicate that expects the method as a string
CoordinatesCanHandleStringMethod(p) ==
    /\ TypeofNumber(p.lat)
    /\ TypeofNumber(p.lon)
    /\ p.method.t = "string"
    /\ TypeofNumber(p.duration) /\ GreaterThanZero(p.duration)

CoordinatesCanHandle(p) ==
    /\ TypeofNumber(p.lat)
    /\ TypeofNumber(p.lon)
    /\ TypeofNumber(p.method)
    /\ TypeofNumber(p.duration) /\ GreaterThanZero(p.duration)

CanHandle(s, p) ==
    IF s = "ByCoordinates" THEN CoordinatesCanHandle(p) ELSE CityCanHandle(p)

\* PrayerService.getByCity / getByCoordinates as called by the strategy
CityGetPrayerTimes(p) ==
    [fn |-> "getByCity", a |-> p.city, b |-> p.country, method |-> p.method]

CoordinatesGetPrayerTimes(p) ==
    [fn |-> "getByCoordinates", a |-> p.lat, b |-> p.lon, method |-> p.method]

StrategyGetPrayerTimes(s, p) ==
    IF s = "ByCoordinates" THEN CoordinatesGetPrayerTimes(p)
    ELSE CityGetPrayerTimes(p)

\* the list built by the AthanService constructor
\* the list with the city strategy first
StrategyListCityFirst == <<"ByCity", "ByCoordinates">>

StrategyList == <<"ByCoordinates", "ByCity">>

\* Array.prototype.find over the strategies: the first one that can handle
Find(list, p) ==
    LET ok == {i \in 1..Len(list) : CanHandle(list[i], p)}
    IN  IF ok = {} THEN "none"
        ELSE list[CHOOSE i \in ok : \A j \in ok : i <= j]

-----------------------------------------------------------------------------
(* Inputs of the strategy resolution.                                         *)

Names ==
    { AthanApiPrefix \o <<"3">>,
      AthanApiPrefix \o <<"1", "2">>,
      AthanApiPrefix \o <<"0">>,
      AthanApiPrefix,
      AthanApiPrefix \o <<"x">>,
      <<"A", "T", "H", "A", "N", "-", "A", "P", "I", "-", "3">>,
      <<"A", "t", "h", "a", "n", "-", "A", "p", "i", "-", "1", "5">>,
      <<"x">> \o AthanApiPrefix \o <<"3">>,
      <<"u", "n", "k", "n", "o", "w", "n", "-", "x">>,
      <<"a", "t", "h", "a", "n">>,
      <<"c", "i", "t", "y">>,
      <<>> }

Payloads ==
    [ lat      : {Undefined, Num(33), NaN, Str("33")},
      lon      : {Undefined, Num(-7)},
      method   : {Undefined, Num(2), Num(12), Str("2")},
      duration : {Undefined, Num(0), Num(-1), Num(7), NaN, Str("7")},
      city     : {Undefined, Str("Rabat")},
      country  : {Undefined, Str("Morocco")} ]

-----------------------------------------------------------------------------
(* AthanService                                                               *)

\* the prefix test with the position of the match ignored
IsAthanApiNameAnywhere(strategyName) ==
    IndexOf(ToLowerCase(strategyName), AthanApiPrefix) >= 0

\* strategyName.toLowerCase().indexOf('athan-api-') == 0
IsAthanApiName(strategyName) ==
    IndexOf(ToLowerCase(strategyName), AthanApiPrefix) = 0

\* the decimal value of a sequence of digits, NaN if it is not one
RECURSIVE DigitsValue(_)
DigitsValue(str) ==
    IF Len(str) = 0 THEN 0
    ELSE 10 * DigitsValue(SubSeq(str, 1, Len(str) - 1)) + ParseInt(str[Len(str)]).n

\* the method parsed from everything after the prefix
MethodOfSuffix(strategyName) ==
    LET suffix == SubSeq(strategyName, Len(AthanApiPrefix) + 1, Len(strategyName))
    IN  IF Len(suffix) = 0 \/ \E i \in 1..Len(suffix) : ParseInt(suffix[i]) = NaN
        THEN NaN
        ELSE Num(DigitsValue(suffix))

\* parseInt(strategyName.charAt(strategyName.length-1))
MethodOfName(strategyName) ==
    ParseInt(CharAt(strategyName, Len(strategyName) - 1))

\* AthanService.getPrayerTimes(p)
GetPrayerTimes(p) ==
    /\ epc = "idle"
    /\ req' = [op |-> "getPrayerTimes", name |-> <<>>, arg |-> p]
    /\ params' = p
    /\ LET strategy == Find(strategies, p)
       IN  IF strategy = "none"
           THEN /\ err' = "NoStrategyFound"
                /\ selected' = "none"
                /\ httpCalls' = <<>>
                /\ epc' = "returned"
           ELSE /\ err' = "none"
                /\ selected' = strategy
                /\ httpCalls' = <<StrategyGetPrayerTimes(strategy, p)>>
                /\ epc' = "awaiting"
    /\ UNCHANGED strategies
    /\ UNCHANGED <<syncVars, dbVars>>

\* AthanService.executeStrategyByName(strategyName, p)
ExecuteStrategyByName(strategyName, p) ==
    /\ epc = "idle"
    /\ req' = [op |-> "executeStrategyByName", name |-> strategyName, arg |-> p]
    /\ IF IsAthanApiName(strategyName)
       THEN LET selectedStrategy == "ByCity"
                q == [p EXCEPT !.method = MethodOfName(strategyName)]
            IN  /\ params' = q
                /\ IF ~CanHandle(selectedStrategy, q)
                   THEN /\ err' = "ParametersNotValid"
                        /\ selected' = "none"
                        /\ httpCalls' = <<>>
                        /\ epc' = "returned"
                   ELSE /\ err' = "none"
                        /\ selected' = selectedStrategy
                        /\ httpCalls' = <<StrategyGetPrayerTimes(selectedStrategy, q)>>
                        /\ epc' = "awaiting"
       ELSE /\ params' = p
            /\ err' = "UnknownStrategy"
            /\ selected' = "none"
            /\ httpCalls' = <<>>
            /\ epc' = "returned"
    /\ UNCHANGED strategies
    /\ UNCHANGED <<syncVars, dbVars>>

\* the upstream answers the strategy's request
UpstreamReturn ==
    /\ epc = "awaiting"
    /\ epc' = "returned"
    /\ UNCHANGED <<strategies, req, params, selected, err, httpCalls>>
    /\ UNCHANGED <<syncVars, dbVars>>

\* the upstream request fails: the error propagates to the caller
UpstreamFail ==
    /\ epc = "awaiting"
    /\ epc' = "returned"
    /\ err' = "UpstreamCallFailed"
    /\ UNCHANGED <<strategies, req, params, selected, httpCalls>>
    /\ UNCHANGED <<syncVars, dbVars>>

-----------------------------------------------------------------------------
(* The upstream Gregorian-to-Hijri conversion endpoint.                       *)

\* the loop bound of fetchMonthlyAnnouncements
Months == 12

\* number of sync runs explored
MaxRuns == 2

\* number of times the upstream revises the dates it announces
MaxRev == 1

\* years a sync is requested for; the upstream holds no data for year 2026
Years == {2024, 2025, 2026}

NoDataYears == {2026}

IsLeap(y) == (y % 4 = 0 /\ y % 100 # 0) \/ y % 400 = 0

DaysInMonth(m, y) ==
    IF m = 2 THEN (IF IsLeap(y) THEN 29 ELSE 28)
    ELSE IF m \in {4, 6, 9, 11} THEN 30 ELSE 31

\* the Hijri date the upstream announces for a Gregorian day, as DD-MM-YYYY
HijriDate(d, m, y, rev) ==
    LET n == (y - 2024) * 372 + (m - 1) * 31 + d + 18 + rev
    IN  <<(n % 30) + 1, ((n \div 30) % 12) + 1, 1445 + (n \div 360)>>

\* resp.data.data of GET gToHCalendar/{month}/{year}: one entry per day,
\* dates as DD-MM-YYYY split at '-'
GToHCalendar(m, y, rev) ==
    IF y \in NoDataYears THEN <<>>
    ELSE [d \in 1..DaysInMonth(m, y) |->
            [gregorian |-> [date |-> <<d, m, y>>],
             hijri     |-> [date |-> HijriDate(d, m, y, rev)]]]

\* days[i] of a JavaScript array: undefined outside 0..length-1
At(days, i) == IF i >= 0 /\ i < Len(days) THEN days[i + 1] ELSE Undefined

-----------------------------------------------------------------------------
(* HijriService                                                               *)

\* a formatDate that joins the parts in the order it found them
FormatDateUnreversed(date) == <<date[1], date[2], date[3]>>

\* formatDate: split at '-', reverse the three parts, join with '-'
FormatDate(date) == <<date[3], date[2], date[1]>>

\* results[month] = { first: days[0], last: days[days.length - 1] }
Boundary(days) == [first |-> At(days, 0), last |-> At(days, Len(days) - 1)]

\* the three statement parameters computed for one month
RowParams(firstDay, lastDay) ==
    << FormatDate(firstDay.gregorian.date),
       FormatDate(firstDay.hijri.date),
       FormatDate(lastDay.hijri.date) >>

\* the keys of an object with integer-like keys, in for-in order (ascending)
RECURSIVE KeysInOrder(_)
KeysInOrder(keys) ==
    IF keys = {} THEN <<>>
    ELSE LET k == CHOOSE x \in keys : \A z \in keys : x <= z
         IN  <<k>> \o KeysInOrder(keys \ {k})

\* the unique key of table hijri_calendar
UniqueKey(row) == row.month

\* an upsert whose ON DUPLICATE KEY UPDATE takes the new values
UpsertOverwrite(table, p) ==
    LET new == [month |-> p[1], hijri_first_day |-> p[2], hijri_last_day |-> p[3]]
        dup == {r \in table : UniqueKey(r) = UniqueKey(new)}
    IN  (table \ dup) \cup {new}

\* a plain INSERT that never meets a duplicate key
InsertAlways(table, p) ==
    table \cup {[month |-> p[1], hijri_first_day |-> p[2], hijri_last_day |-> p[3]]}

\* INSERT INTO hijri_calendar (month, hijri_first_day, hijri_last_day)
\* VALUES (?, ?, ?) ON DUPLICATE KEY UPDATE hijri_first_day=hijri_first_day,
\* hijri_last_day=hijri_last_day
Upsert(table, p) ==
    LET new == [month |-> p[1], hijri_first_day |-> p[2], hijri_last_day |-> p[3]]
        dup == {r \in table : UniqueKey(r) = UniqueKey(new)}
    IN  IF dup = {} THEN table \cup {new}
        ELSE (table \ dup) \cup
             {[r EXCEPT !.hijri_first_day = r.hijri_first_day,
                        !.hijri_last_day = r.hijri_last_day] : r \in dup}

\* a fetch loop that goes on without awaiting the response
NotAwaited == "fetch"

\* where the fetch loop is after axios.get(url) was called: it awaits
AfterRequest == "awaitFetch"

\* where the run is after axios.get rejected: nothing catches it, the run ends
AfterFetchError == "idle"

\* a write loop that issues the failed statement again
RetryWrite == "awaitWrite"

\* where the run is after pool.execute rejected: nothing catches it, the run
\* ends
AfterWriteError == "idle"

NoReturn == [kind |-> "none", value |-> <<>>, error |-> ""]

Thrown(e) == [kind |-> "error", value |-> <<>>, error |-> e]

\* `return;`
ReturnUndefined == [kind |-> "undefined", value |-> <<>>, error |-> ""]

\* `return answer;`
Return(v) == [kind |-> "answer", value |-> v, error |-> ""]

\* a fetch loop that leaves after its first month
NoMoreMonths(m) == FALSE

\* for (let month = 1; month <= 12; month++): month m is followed by another
MoreMonths(m) == m + 1 <= Months

\* the upstream publishes revised Hijri dates (between two sync runs)
UpstreamRevise ==
    /\ pc = "idle"
    /\ upstreamRev < MaxRev
    /\ upstreamRev' = upstreamRev + 1
    /\ UNCHANGED <<pc, gregoYear, month, results, answer, ret, warned,
                   outstanding, issued, received, hijri_calendar, tableBefore,
                   revAt, runs>>
    /\ UNCHANGED <<engineVars, dbVars>>

\* updateOfficialHijriCalendar(y) is called; fetchMonthlyAnnouncements starts
StartSync(y) ==
    /\ pc = "idle"
    /\ runs < MaxRuns
    /\ runs' = runs + 1
    /\ gregoYear' = y
    /\ pc' = "fetch"
    /\ month' = 1
    /\ results' = <<>>
    /\ answer' = <<>>
    /\ ret' = NoReturn
    /\ warned' = FALSE
    /\ outstanding' = {}
    /\ issued' = <<>>
    /\ received' = <<>>
    /\ revAt' = <<>>
    /\ tableBefore' = hijri_calendar
    /\ UNCHANGED <<hijri_calendar, upstreamRev>>
    /\ UNCHANGED <<engineVars, dbVars>>

\* axios.get(url) for the current month
FetchIssue ==
    /\ pc = "fetch"
    /\ month <= Months
    /\ issued' = Append(issued, month)
    /\ outstanding' = outstanding \cup {month}
    /\ pc' = AfterRequest
    /\ UNCHANGED <<gregoYear, month, results, answer, ret, warned, received,
                   hijri_calendar, tableBefore, upstreamRev, revAt, runs>>
    /\ UNCHANGED <<engineVars, dbVars>>

\* the response arrives: results[month] is set and the loop goes on; after
\* month 12 fetchMonthlyAnnouncements returns and the caller tests the keys
FetchResponse ==
    /\ pc = "awaitFetch"
    /\ month \in outstanding
    /\ LET days == GToHCalendar(month, gregoYear, upstreamRev)
           res  == [m \in (DOMAIN results) \cup {month} |->
                      IF m = month THEN Boundary(days) ELSE results[m]]
       IN  /\ results' = res
           /\ received' = Append(received, month)
           /\ revAt' = Append(revAt, upstreamRev)
           /\ outstanding' = outstanding \ {month}
           /\ IF MoreMonths(month)
              THEN /\ month' = month + 1
                   /\ pc' = "fetch"
                   /\ UNCHANGED <<ret, warned>>
              ELSE IF Cardinality(DOMAIN res) = 0
                   THEN /\ warned' = TRUE
                        /\ ret' = ReturnUndefined
                        /\ pc' = "idle"
                        /\ month' = month + 1
                   ELSE /\ month' = 1
                        /\ pc' = "write"
                        /\ UNCHANGED <<ret, warned>>
    /\ UNCHANGED <<gregoYear, answer, issued, hijri_calendar, tableBefore,
                   upstreamRev, runs>>
    /\ UNCHANGED <<engineVars, dbVars>>

\* axios.get rejects: the error leaves updateOfficialHijriCalendar
FetchFail ==
    /\ pc = "awaitFetch"
    /\ month \in outstanding
    /\ outstanding' = outstanding \ {month}
    /\ ret' = Thrown("UpstreamCallFailed")
    /\ pc' = AfterFetchError
    /\ UNCHANGED <<gregoYear, month, results, answer, warned, issued, received,
                   hijri_calendar, tableBefore, upstreamRev, revAt, runs>>
    /\ UNCHANGED <<engineVars, dbVars>>

\* one iteration of `for (const month in calendar)` up to pool.execute(...)
WriteIssue ==
    /\ pc = "write"
    /\ LET key      == KeysInOrder(DOMAIN results)[month]
           firstDay == results[key].first
           lastDay  == results[key].last
       IN  IF firstDay = Undefined \/ lastDay = Undefined
           THEN /\ ret' = Thrown("TypeError")
                /\ pc' = "idle"
                /\ UNCHANGED answer
           ELSE /\ answer' = Append(answer, RowParams(firstDay, lastDay))
                /\ pc' = "awaitWrite"
                /\ UNCHANGED ret
    /\ UNCHANGED <<gregoYear, month, results, warned, outstanding, issued,
                   received, hijri_calendar, tableBefore, upstreamRev, revAt,
                   runs>>
    /\ UNCHANGED <<engineVars, dbVars>>

\* the statement completes; after the last key the run returns answer
WriteDone ==
    /\ pc = "awaitWrite"
    /\ hijri_calendar' = Upsert(hijri_calendar, answer[Len(answer)])
    /\ IF month + 1 <= Cardinality(DOMAIN results)
       THEN /\ month' = month + 1
            /\ pc' = "write"
            /\ UNCHANGED ret
       ELSE /\ month' = month + 1
            /\ pc' = "idle"
            /\ ret' = Return(answer)
    /\ UNCHANGED <<gregoYear, results, answer, warned, outstanding, issued,
                   received, tableBefore, upstreamRev, revAt, runs>>
    /\ UNCHANGED <<engineVars, dbVars>>

\* the statement fails: the error leaves updateOfficialHijriCalendar
WriteFail ==
    /\ pc = "awaitWrite"
    /\ ret' = Thrown("PersistenceWriteFailed")
    /\ pc' = AfterWriteError
    /\ UNCHANGED <<gregoYear, month, results, answer, warned, outstanding,
                   issued, received, hijri_calendar, tableBefore, upstreamRev,
                   revAt, runs>>
    /\ UNCHANGED <<engineVars, dbVars>>

-----------------------------------------------------------------------------
(* DbService: values, tables and statements                                   *)

\* number of DbService calls explored
MaxDbCalls == 2

\* the characters of the string values the model uses
Chars(str) ==
    CASE str = "Rabat"   -> <<"R", "a", "b", "a", "t">>
      [] str = "rabat"   -> <<"r", "a", "b", "a", "t">>
      [] str = "RABAT"   -> <<"R", "A", "B", "A", "T">>
      [] str = "Ra%"     -> <<"R", "a", "%">>
      [] str = "Cairo"   -> <<"C", "a", "i", "r", "o">>
      [] str = "Morocco" -> <<"M", "o", "r", "o", "c", "c", "o">>
      [] str = "MOROCCO" -> <<"M", "O", "R", "O", "C", "C", "O">>
      [] str = "Egypt"   -> <<"E", "g", "y", "p", "t">>
      [] str = "Malta"   -> <<"M", "a", "l", "t", "a">>
      [] OTHER           -> <<>>

\* how the collation of table city compares characters: without case
CityCollationFold(c) == ToLowerChar(c)

\* COLLATE=utf8mb4_0900_ai_ci of table athan_school: without case
SchoolCollationFold(c) == ToLowerChar(c)

\* LIKE under a binary collation: the characters are compared as they are
RECURSIVE LikeBinary(_, _)
LikeBinary(text, pat) ==
    IF Len(pat) = 0 THEN Len(text) = 0
    ELSE IF Head(pat) = "%"
         THEN LikeBinary(text, Tail(pat)) \/
              (Len(text) > 0 /\ LikeBinary(Tail(text), pat))
         ELSE /\ Len(text) > 0
              /\ Head(pat) = "_" \/ Head(pat) = Head(text)
              /\ LikeBinary(Tail(text), Tail(pat))

\* text LIKE pat: % matches any run of characters, _ any one character
RECURSIVE Like(_, _)
Like(text, pat) ==
    IF Len(pat) = 0 THEN Len(text) = 0
    ELSE IF Head(pat) = "%"
         THEN Like(text, Tail(pat)) \/ (Len(text) > 0 /\ Like(Tail(text), pat))
         ELSE /\ Len(text) > 0
              /\ Head(pat) = "_" \/
                 CityCollationFold(Head(pat)) = CityCollationFold(Head(text))
              /\ Like(Tail(text), Tail(pat))

\* a bind parameter mysql2 accepts: anything but undefined
BindOk(v) == v.t # "undefined"

\* the decimal digits of a natural number
RECURSIVE DecimalChars(_)
DecimalChars(k) ==
    IF k < 10 THEN <<Digits[k + 1]>>
    ELSE DecimalChars(k \div 10) \o <<Digits[(k % 10) + 1]>>

\* `${v}` in a template literal
ToStringChars(v) ==
    CASE v.t = "number"    -> DecimalChars(v.n)
      [] v.t = "nan"       -> <<"N", "a", "N">>
      [] v.t = "undefined" -> <<"u", "n", "d", "e", "f", "i", "n", "e", "d">>
      [] v.t = "null"      -> <<"n", "u", "l", "l">>
      [] OTHER             -> Chars(v.s)

\* the city tables the storage may hold
CityTables ==
    { << [id |-> 1, name |-> "Rabat", country_name |-> "Morocco"],
         [id |-> 2, name |-> "Cairo", country_name |-> "Egypt"],
         [id |-> 3, name |-> "Rabat", country_name |-> "Malta"] >>,
      << [id |-> 7, name |-> "RABAT", country_name |-> "MOROCCO"],
         [id |-> 8, name |-> "Rabat", country_name |-> "Morocco"] >>,
      << >> }

\* arguments findCityIdByName is called with
CityArgs == {Str("Rabat"), Str("rabat"), Str("RABAT"), Str("Ra%"), Str("Cairo"),
             Undefined}

CountryArgs == {Str("Morocco"), Str("MOROCCO"), Str("Egypt")}

\* SELECT id FROM city WHERE country_name like ? and name like ? LIMIT 1,
\* params [country, city]: the rows that match, in storage order
CityMatches(table, cityArg, countryArg) ==
    SelectSeq(table, LAMBDA r :
        /\ Like(Chars(r.country_name), Chars(countryArg.s))
        /\ Like(Chars(r.name), Chars(cityArg.s)))

\* SELECT id FROM athan_school WHERE startegy_name = ? LIMIT 1
SchoolMatches(table, label) ==
    LET fold(str) == [i \in 1..Len(str) |-> SchoolCollationFold(str[i])]
        ids == {i \in 1..Len(table) : fold(table[i].startegy_name) = fold(label)}
    IN  KeysInOrder(ids)

\* rows.length > 0 ? rows[0].id : null
FirstId(rows) == IF Len(rows) > 0 THEN Num(rows[1].id) ELSE Null

\* the upstream methods listing: entries in for-in order
Entry(k, i, nm) == [key |-> k, id |-> i, name |-> nm]

Catalogs ==
    { << Entry(<<"M", "W", "L">>, Num(3), Str("Muslim World League")),
         Entry(<<"C", "U", "S", "T", "O", "M">>, Num(99), Undefined),
         Entry(<<"M", "A", "K", "K", "A", "H">>, Num(12), Str("Umm Al-Qura")) >>,
      << Entry(<<"3">>, Num(3), Str("Muslim World League")) >>,
      << >> }

\* the row whose first column is the entry's numeric id
SchoolRowKeyedById(entry) ==
    [name          |-> ToStringChars(entry.id),
     startegy_name |-> AthanApiPrefix \o ToStringChars(entry.id),
     description   |-> entry.name.s]

\* the parameters [methodId, `athan-api-${method['id']}`, method.name] as a row
SchoolRow(entry) ==
    [name          |-> entry.key,
     startegy_name |-> AthanApiPrefix \o ToStringChars(entry.id),
     description   |-> entry.name.s]

\* the next entry at or after position i that has a name, 0 if there is none
NextNamed(cat, i) ==
    LET named == {j \in i..Len(cat) : cat[j].name # Undefined}
    IN  IF named = {} THEN 0 ELSE CHOOSE j \in named : \A k \in named : j <= k

\* the properties of a timings object, in the order fetchData creates them
PropertyOrder == <<"Fajr", "Shurooq", "Dhuhr", "Asr", "Maghrib", "Isha">>

\* JSON.stringify of an object of strings: the members in property order,
\* a member whose value is undefined left out
JsonStringify(obj) ==
    LET kept == SelectSeq(PropertyOrder, LAMBDA k : obj[k].t # "undefined")
    IN  [i \in 1..Len(kept) |-> <<kept[i], obj[kept[i]].s>>]

\* JSON.parse of such a text
JsonParse(text) ==
    [k \in {text[i][1] : i \in 1..Len(text)} |->
        Str((CHOOSE m \in {text[i] : i \in 1..Len(text)} : m[1] = k)[2])]

Timings(fajr, isha) ==
    [Fajr |-> Str(fajr), Shurooq |-> Str("05:30"), Dhuhr |-> Str("12:40"),
     Asr |-> Str("16:20"), Maghrib |-> Str("19:35"), Isha |-> Str(isha)]

\* NormalizedPrayerDay values, dates as DD-MM-YYYY split at '-'
Day1 == [date |-> <<25, 7, 2024>>, timings |-> Timings("04:00", "21:05")]

Day2 == [date |-> <<26, 7, 2024>>, timings |-> Timings("04:01", "21:04")]

Day3 == [date |-> <<1, 8, 2024>>, timings |-> Timings("04:07", "20:58")]

\* the calendars insertData is called with
CalendarInputs ==
    {<<>>, <<Day1>>, <<Day1, Day2>>, <<Day2, Day1>>, <<Day1, Day1>>,
     <<Day1, Day2, Day3>>}

SchoolIds == {1}

CityIds == {1, 2}

\* the date stored as it came
KeepDate(date) == date

\* const [day, month, year] = date.split('-'); `${year}-${month}-${day}`
ReformatDate(date) ==
    LET day == date[1]
        mon == date[2]
        year == date[3]
    IN  <<year, mon, day>>

\* toInsert = [athan_school_id, city_id, formattedDate, JSON.stringify(timings)]
CalendarRow(sid, cid, rec) ==
    [athan_school_id |-> sid, city_id |-> cid, date |-> ReformatDate(rec.date),
     data |-> JsonStringify(rec.timings)]

\* a row with the same (athan_school_id, city_id, date) is stored
HasCalendarKey(table, row) ==
    \E i \in 1..Len(table) :
        /\ table[i].athan_school_id = row.athan_school_id
        /\ table[i].city_id = row.city_id
        /\ table[i].date = row.date

Statement(sql, row) == [sql |-> sql, row |-> row]

-----------------------------------------------------------------------------
(* DbService: the operations                                                  *)

NoDbRequest ==
    [op |-> "none", name |-> <<>>, a |-> Undefined, b |-> Undefined,
     sid |-> 0, cid |-> 0, data |-> <<>>]

NoSnapshot ==
    [req |-> NoDbRequest, ok |-> FALSE, ret |-> Null, catalog |-> <<>>,
     school |-> <<>>, calendar |-> <<>>]

\* if (!this.pool): the operation refuses to run without a pool
PoolNotChecked(pl) == FALSE

NotReady(pl) == ~pl

\* catch (error) { ...; throw error; } inside the loop of insertData: where the
\* call continues and by how many records it moves on
SwallowInsertError == [pc |-> "loop", step |-> 1]

AfterInsertError == [pc |-> "returned", step |-> 0]

\* onModuleInit: the pool is created
OnModuleInit ==
    /\ ~pool
    /\ dpc = "idle"
    /\ pool' = TRUE
    /\ UNCHANGED <<city, athan_school, athan_calendar, uniqueKeys, dpc, dreq,
                   didx, dret, derr, statements, methodsCalls, catalog, prev,
                   dbCalls>>

\* the part of every call's start that is the same
DbEnter(r) ==
    /\ dpc = "idle"
    /\ dbCalls' = dbCalls + 1
    /\ dreq' = r
    /\ dret' = Null
    /\ UNCHANGED <<pool, city, athan_school, athan_calendar, uniqueKeys, prev>>

\* DbService.insertData(athan_school_id, city_id, data)
InsertData(sid, cid, data) ==
    /\ DbEnter([NoDbRequest EXCEPT !.op = "insertData", !.sid = sid,
                                   !.cid = cid, !.data = data])
    /\ statements' = <<>>
    /\ methodsCalls' = 0
    /\ catalog' = <<>>
    /\ IF NotReady(pool)
       THEN /\ derr' = "StorageUnavailable"
            /\ dpc' = "returned"
            /\ didx' = 0
       ELSE /\ derr' = "none"
            /\ dpc' = "loop"
            /\ didx' = 1

\* for (const dataId in data) { ... await this.pool.execute(sql, toInsert) }
InsertNext ==
    /\ dpc = "loop"
    /\ IF didx > Len(dreq.data)
       THEN /\ dpc' = "returned"
            /\ UNCHANGED <<didx, derr, statements>>
       ELSE IF ~pool
            THEN /\ derr' = "TypeError"
                 /\ dpc' = AfterInsertError.pc
                 /\ didx' = didx + AfterInsertError.step
                 /\ UNCHANGED statements
            ELSE /\ statements' = Append(statements,
                        Statement("INSERT INTO athan_calendar",
                                  CalendarRow(dreq.sid, dreq.cid, dreq.data[didx])))
                 /\ dpc' = "awaitInsert"
                 /\ UNCHANGED <<didx, derr>>
    /\ UNCHANGED <<pool, city, athan_school, athan_calendar, uniqueKeys, dreq,
                   dret, methodsCalls, catalog, prev, dbCalls>>

\* the INSERT is executed: the row is appended
InsertDone ==
    /\ dpc = "awaitInsert"
    /\ LET row == statements[Len(statements)].row
       IN  /\ ~(uniqueKeys /\ HasCalendarKey(athan_calendar, row))
           /\ athan_calendar' = Append(athan_calendar, row)
    /\ dpc' = "loop"
    /\ didx' = didx + 1
    /\ UNCHANGED <<pool, city, athan_school, uniqueKeys, dreq, dret, derr,
                   statements, methodsCalls, catalog, prev, dbCalls>>

\* the INSERT is rejected: the catch block logs and rethrows
InsertFail ==
    /\ dpc = "awaitInsert"
    /\ LET row == statements[Len(statements)].row
       IN  derr' \in {"PersistenceWriteFailed"} \cup
                     (IF uniqueKeys /\ HasCalendarKey(athan_calendar, row)
                      THEN {"DuplicateKey"} ELSE {})
    /\ dpc' = AfterInsertError.pc
    /\ didx' = didx + AfterInsertError.step
    /\ UNCHANGED <<pool, city, athan_school, athan_calendar, uniqueKeys, dreq,
                   dret, statements, methodsCalls, catalog, prev, dbCalls>>

\* DbService.savePrayerCalculationMethods(prayerService)
SavePrayerCalculationMethods ==
    /\ DbEnter([NoDbRequest EXCEPT !.op = "savePrayerCalculationMethods"])
    /\ statements' = <<>>
    /\ catalog' = <<>>
    /\ didx' = 0
    /\ IF NotReady(pool)
       THEN /\ derr' = "StorageUnavailable"
            /\ dpc' = "returned"
            /\ methodsCalls' = 0
       ELSE /\ derr' = "none"
            /\ dpc' = "awaitMethods"
            /\ methodsCalls' = 1

\* prayerService.getMethods() answers
MethodsReturn(cat) ==
    /\ dpc = "awaitMethods"
    /\ catalog' = cat
    /\ didx' = NextNamed(cat, 1)
    /\ dpc' = "mloop"
    /\ UNCHANGED <<pool, city, athan_school, athan_calendar, uniqueKeys, dreq,
                   dret, derr, statements, methodsCalls, prev, dbCalls>>

\* prayerService.getMethods() fails: logged and rethrown
MethodsFail ==
    /\ dpc = "awaitMethods"
    /\ derr' = "UpstreamCallFailed"
    /\ dpc' = "returned"
    /\ UNCHANGED <<pool, city, athan_school, athan_calendar, uniqueKeys, dreq,
                   didx, dret, statements, methodsCalls, catalog, prev, dbCalls>>

\* for (const methodId in methods) { ...; await this.pool.execute(sql, [...]) }
MethodNext ==
    /\ dpc = "mloop"
    /\ IF didx = 0
       THEN /\ dpc' = "returned"
            /\ UNCHANGED <<derr, statements>>
       ELSE IF ~pool
            THEN /\ derr' = "TypeError"
                 /\ dpc' = "returned"
                 /\ UNCHANGED statements
            ELSE /\ statements' = Append(statements,
                        Statement("INSERT INTO athan_school",
                                  SchoolRow(catalog[didx])))
                 /\ dpc' = "awaitMethodInsert"
                 /\ UNCHANGED derr
    /\ UNCHANGED <<pool, city, athan_school, athan_calendar, uniqueKeys, dreq,
                   didx, dret, methodsCalls, catalog, prev, dbCalls>>

\* the INSERT is executed: athan_school has no unique key besides its id
MethodInsertDone ==
    /\ dpc = "awaitMethodInsert"
    /\ athan_school' = Append(athan_school, statements[Len(statements)].row)
    /\ didx' = NextNamed(catalog, didx + 1)
    /\ dpc' = "mloop"
    /\ UNCHANGED <<pool, city, athan_calendar, uniqueKeys, dreq, dret, derr,
                   statements, methodsCalls, catalog, prev, dbCalls>>

MethodInsertFail ==
    /\ dpc = "awaitMethodInsert"
    /\ derr' = "PersistenceWriteFailed"
    /\ dpc' = "returned"
    /\ UNCHANGED <<pool, city, athan_school, athan_calendar, uniqueKeys, dreq,
                   didx, dret, statements, methodsCalls, catalog, prev, dbCalls>>

\* the start of a lookup: the guard, then execute(sql, binds)
Lookup(sql, binds) ==
    /\ methodsCalls' = 0
    /\ catalog' = <<>>
    /\ didx' = 0
    /\ IF NotReady(pool)
       THEN /\ derr' = "StorageUnavailable"
            /\ dpc' = "returned"
            /\ statements' = <<>>
       ELSE IF ~pool
            THEN /\ derr' = "TypeError"
                 /\ dpc' = "returned"
                 /\ statements' = <<>>
            ELSE IF \E i \in 1..Len(binds) : ~BindOk(binds[i])
                 THEN /\ derr' = "BindError"
                      /\ dpc' = "returned"
                      /\ statements' = <<>>
                 ELSE /\ derr' = "none"
                      /\ dpc' = "awaitSelect"
                      /\ statements' = <<Statement(sql, <<>>)>>

\* DbService.findCityIdByName(city, country)
FindCityIdByName(cityArg, countryArg) ==
    /\ DbEnter([NoDbRequest EXCEPT !.op = "findCityIdByName", !.a = cityArg,
                                   !.b = countryArg])
    /\ Lookup("SELECT id FROM city", <<countryArg, cityArg>>)

\* DbService.findStrategyIdByName(startegy_name)
FindStrategyIdByName(startegy_name) ==
    /\ DbEnter([NoDbRequest EXCEPT !.op = "findStrategyIdByName",
                                   !.name = startegy_name])
    /\ Lookup("SELECT id FROM athan_school", <<Str("")>>)

\* the SELECT answers: rows.length > 0 ? rows[0].id : null
SelectDone ==
    /\ dpc = "awaitSelect"
    /\ dret' = IF dreq.op = "findCityIdByName"
               THEN FirstId(CityMatches(city, dreq.a, dreq.b))
               ELSE LET ids == SchoolMatches(athan_school, dreq.name)
                    IN  IF Len(ids) > 0 THEN Num(ids[1]) ELSE Null
    /\ dpc' = "returned"
    /\ UNCHANGED <<pool, city, athan_school, athan_calendar, uniqueKeys, dreq,
                   didx, derr, statements, methodsCalls, catalog, prev, dbCalls>>

\* the SELECT fails: logged and rethrown
SelectFail ==
    /\ dpc = "awaitSelect"
    /\ derr' = "QueryFailed"
    /\ dpc' = "returned"
    /\ UNCHANGED <<pool, city, athan_school, athan_calendar, uniqueKeys, dreq,
                   didx, dret, statements, methodsCalls, catalog, prev, dbCalls>>

\* the caller has taken the result or the error of the call
DbCallEnd ==
    /\ dpc = "returned"
    /\ prev' = [req |-> dreq, ok |-> derr = "none", ret |-> dret,
                catalog |-> catalog,
                school |-> athan_school, calendar |-> athan_calendar]
    /\ dpc' = "idle"
    /\ dreq' = NoDbRequest
    /\ didx' = 0
    /\ dret' = Null
    /\ derr' = "none"
    /\ statements' = <<>>
    /\ methodsCalls' = 0
    /\ catalog' = <<>>
    /\ UNCHANGED <<pool, city, athan_school, athan_calendar, uniqueKeys, dbCalls>>

-----------------------------------------------------------------------------
(* Specifications                                                             *)

NoPayload ==
    [lat |-> Undefined, lon |-> Undefined, method |-> Undefined,
     duration |-> Undefined, city |-> Undefined, country |-> Undefined]

NoRequest == [op |-> "none", name |-> <<>>, arg |-> NoPayload]

\* the caller has taken the result or the error: the call's frame is gone
CallEnd ==
    /\ epc = "returned"
    /\ epc' = "idle"
    /\ req' = NoRequest
    /\ params' = NoPayload
    /\ selected' = "none"
    /\ err' = "none"
    /\ httpCalls' = <<>>
    /\ UNCHANGED strategies
    /\ UNCHANGED <<syncVars, dbVars>>

NoFlow == [strategy |-> <<>>, data |-> NoPayload]

NoFetch == [fn |-> "none", a |-> Undefined, b |-> Undefined, method |-> Undefined]

NoResponse == [kind |-> "none", calendar |-> <<>>, error |-> "none"]

InitFrames ==
    /\ strategies = StrategyList
    /\ epc = "idle"
    /\ req = NoRequest
    /\ params = NoPayload
    /\ selected = "none"
    /\ err = "none"
    /\ httpCalls = <<>>
    /\ pc = "idle"
    /\ gregoYear = 0
    /\ month = 1
    /\ results = <<>>
    /\ answer = <<>>
    /\ ret = NoReturn
    /\ warned = FALSE
    /\ outstanding = {}
    /\ issued = <<>>
    /\ received = <<>>
    /\ revAt = <<>>
    /\ hijri_calendar = {}
    /\ tableBefore = {}
    /\ upstreamRev = 0
    /\ runs = 0
    /\ athan_calendar = <<>>
    /\ dpc = "idle"
    /\ dreq = NoDbRequest
    /\ didx = 0
    /\ dret = Null
    /\ derr = "none"
    /\ statements = <<>>
    /\ methodsCalls = 0
    /\ catalog = <<>>
    /\ prev = NoSnapshot
    /\ dbCalls = 0
    /\ fpc = "idle"
    /\ flow = NoFlow
    /\ strategy_id = Null
    /\ city_id = Null
    /\ calendar = <<>>
    /\ response = NoResponse
    /\ fetched = NoFetch
    /\ flows = 0

\* the module is initialised, the storage holds some cities
Init ==
    /\ InitFrames
    /\ pool = TRUE
    /\ city = CHOOSE t \in CityTables : Len(t) = 3
    /\ athan_school = <<>>
    /\ uniqueKeys = TRUE

\* any storage, with or without a pool
InitDb ==
    /\ InitFrames
    /\ pool \in BOOLEAN
    /\ city \in CityTables
    /\ athan_school = <<>>
    /\ uniqueKeys \in BOOLEAN

NextResolve ==
    \/ \E p \in Payloads : GetPrayerTimes(p) /\ UNCHANGED flowVars
    \/ \E strategyName \in Names, p \in Payloads :
          ExecuteStrategyByName(strategyName, p) /\ UNCHANGED flowVars
    \/ UpstreamReturn /\ UNCHANGED flowVars
    \/ UpstreamFail /\ UNCHANGED flowVars
    \/ CallEnd /\ UNCHANGED flowVars

NextSync ==
    \/ \E y \in Years : StartSync(y) /\ UNCHANGED flowVars
    \/ FetchIssue /\ UNCHANGED flowVars
    \/ FetchResponse /\ UNCHANGED flowVars
    \/ FetchFail /\ UNCHANGED flowVars
    \/ WriteIssue /\ UNCHANGED flowVars
    \/ WriteDone /\ UNCHANGED flowVars
    \/ WriteFail /\ UNCHANGED flowVars
    \/ UpstreamRevise /\ UNCHANGED flowVars

NextDb ==
    \/ OnModuleInit /\ UNCHANGED <<engineVars, syncVars, flowVars>>
    \/ \E sid \in SchoolIds, cid \in CityIds, data \in CalendarInputs :
          dbCalls < MaxDbCalls /\ InsertData(sid, cid, data) /\ UNCHANGED <<engineVars, syncVars, flowVars>>
    \/ InsertNext /\ UNCHANGED <<engineVars, syncVars, flowVars>>
    \/ InsertDone /\ UNCHANGED <<engineVars, syncVars, flowVars>>
    \/ InsertFail /\ UNCHANGED <<engineVars, syncVars, flowVars>>
    \/ dbCalls < MaxDbCalls /\ SavePrayerCalculationMethods /\ UNCHANGED <<engineVars, syncVars, flowVars>>
    \/ \E cat \in Catalogs : MethodsReturn(cat) /\ UNCHANGED <<engineVars, syncVars, flowVars>>
    \/ MethodsFail /\ UNCHANGED <<engineVars, syncVars, flowVars>>
    \/ MethodNext /\ UNCHANGED <<engineVars, syncVars, flowVars>>
    \/ MethodInsertDone /\ UNCHANGED <<engineVars, syncVars, flowVars>>
    \/ MethodInsertFail /\ UNCHANGED <<engineVars, syncVars, flowVars>>
    \/ \E cityArg \in CityArgs, countryArg \in CountryArgs :
          dbCalls < MaxDbCalls /\ FindCityIdByName(cityArg, countryArg) /\ UNCHANGED <<engineVars, syncVars, flowVars>>
    \/ \E startegy_name \in Names :
          dbCalls < MaxDbCalls /\ FindStrategyIdByName(startegy_name) /\ UNCHANGED <<engineVars, syncVars, flowVars>>
    \/ SelectDone /\ UNCHANGED <<engineVars, syncVars, flowVars>>
    \/ SelectFail /\ UNCHANGED <<engineVars, syncVars, flowVars>>
    \/ DbCallEnd /\ UNCHANGED <<engineVars, syncVars, flowVars>>

SpecDb == InitDb /\ [][NextDb]_vars

SpecResolve == Init /\ [][NextResolve]_vars

SpecSync == Init /\ [][NextSync]_vars

-----------------------------------------------------------------------------
(* Properties of the strategy resolution, checked under SpecResolve.          *)

\* the request of the call holds what By-Coordinates asks for
HasCoordinates(p) ==
    /\ p.lat.t \in {"number", "nan"}
    /\ p.lon.t \in {"number", "nan"}
    /\ p.method.t \in {"number", "nan"}
    /\ p.duration.t = "number" /\ p.duration.n > 0

\* str starts with the characters of pre
StartsWith(str, pre) ==
    Len(str) >= Len(pre) /\ \A i \in 1..Len(pre) : str[i] = pre[i]

\* the value of one decimal digit character, NaN for any other character
DigitOf(c) ==
    CASE c = "0" -> Num(0) [] c = "1" -> Num(1) [] c = "2" -> Num(2)
      [] c = "3" -> Num(3) [] c = "4" -> Num(4) [] c = "5" -> Num(5)
      [] c = "6" -> Num(6) [] c = "7" -> Num(7) [] c = "8" -> Num(8)
      [] c = "9" -> Num(9) [] OTHER -> NaN

LastCharOf(str) == IF Len(str) = 0 THEN "" ELSE str[Len(str)]

\* C1: getPrayerTimes walks the list [By-Coordinates, By-City] and, for a
\* request with numeric lat, lon, method and a numeric duration > 0, executes
\* By-Coordinates and nothing else.
C1_CoordinatesSelected ==
    /\ strategies = <<"ByCoordinates", "ByCity">>
    /\ (req.op = "getPrayerTimes" /\ HasCoordinates(req.arg)) =>
          /\ selected = "ByCoordinates"
          /\ Len(httpCalls) = 1
          /\ httpCalls[1].fn = "getByCoordinates"

C1_Witness ==
    /\ epc = "returned"
    /\ req.op = "getPrayerTimes"
    /\ HasCoordinates(req.arg)
    /\ req.arg.city.t = "string"
    /\ selected = "ByCoordinates"
    /\ err = "none"

C3_MethodFromLastChar ==
    (req.op = "executeStrategyByName" /\ StartsWith(req.name, AthanApiPrefix)) =>
        /\ params.method = DigitOf(LastCharOf(req.name))
        /\ Len(httpCalls) = 1
        /\ httpCalls[1].fn = "getByCity"
        /\ httpCalls[1].method = DigitOf(LastCharOf(req.name))
        /\ req.name = AthanApiPrefix \o <<"3">> => params.method = Num(3)
        /\ req.name = AthanApiPrefix \o <<"1", "2">> => params.method = Num(2)

C3_Witness ==
    /\ epc = "returned"
    /\ req.op = "executeStrategyByName"
    /\ req.name = AthanApiPrefix \o <<"1", "2">>
    /\ req.arg.method = Num(12)
    /\ params.method = Num(2)
    /\ httpCalls[1].method = Num(2)

-----------------------------------------------------------------------------
(* Properties of the calendar synchronisation, checked under SpecSync.        *)

\* the key the boundary of month m of year y is stored under
KeyOf(y, m) == <<y, m, 1>>

\* all boundaries of year y are in the table
YearStored(y, table) ==
    \A m \in 1..Months : \E r \in table : r.month = KeyOf(y, m)

\* the run is over
RunEnded == pc = "idle" /\ runs > 0

\* the days the upstream returned for month m of the run
FetchedDays(m) == GToHCalendar(m, gregoYear, revAt[m])

AsRow(p) == [month |-> p[1], hijri_first_day |-> p[2], hijri_last_day |-> p[3]]

\* C6: a sync of a year whose 12 boundaries are already stored leaves the
\* table as it was before the run, and no step of any run changes or removes
\* a row that is stored, whatever Hijri dates the upstream returns now.
C6_SyncIdempotent ==
    /\ [](YearStored(gregoYear, tableBefore) => hijri_calendar = tableBefore)
    /\ [][\A r \in hijri_calendar : r \in hijri_calendar']_vars

C6_Witness ==
    /\ RunEnded
    /\ ret.kind = "answer"
    /\ YearStored(gregoYear, tableBefore)
    /\ hijri_calendar = tableBefore
    /\ \E i \in 1..Len(ret.value) :
          /\ AsRow(ret.value[i]) \notin hijri_calendar
          /\ \E r \in hijri_calendar : r.month = ret.value[i][1]

\* C7 as stated: the boundaries are keyed by the Gregorian month index, so
\* the table never holds two rows for the same month index and never more
\* than 12 rows, whatever years were synchronised.
C7_OneRowPerMonthIndex ==
    /\ Cardinality(hijri_calendar) <= Months
    /\ \A r1, r2 \in hijri_calendar : r1.month[2] = r2.month[2] => r1 = r2

\* C7 (amended): the boundaries are keyed by the reformatted Gregorian date
\* of the month's first fetched day, so the table never holds two rows with
\* the same such date: at most 12 rows for each synchronised year.
C7_OneRowPerFirstDay ==
    /\ \A r1, r2 \in hijri_calendar : r1.month = r2.month => r1 = r2
    /\ \A r \in hijri_calendar :
          \E y \in Years, m \in 1..Months : r.month = KeyOf(y, m)
    /\ \A y \in Years :
          Cardinality({r \in hijri_calendar : r.month[1] = y}) <= Months

C7_Witness ==
    /\ RunEnded
    /\ ret.kind = "answer"
    /\ Cardinality(hijri_calendar) = 2 * Months
    /\ \E r1, r2 \in hijri_calendar :
          r1.month[2] = r2.month[2] /\ r1.month[1] # r2.month[1]

\* C8 as stated: when the upstream returned empty day sequences for the
\* year, the run returns normally without a value, has written no row and
\* has reported that there is no data for the year.
C8_EmptyYearReturnsEarly ==
    (/\ RunEnded
     /\ Len(received) = Months
     /\ \A m \in 1..Months : FetchedDays(m) = <<>>) =>
        /\ ret.kind = "undefined"
        /\ warned
        /\ hijri_calendar = tableBefore

\* C9: a run that completes returns 12 triples in month order, the triple of
\* month m being the Gregorian and the Hijri date of the first fetched day
\* and the Hijri date of the last fetched day of month m, each with its three
\* components reversed, whether the row was inserted or skipped.
C9_AnswerTriples ==
    ret.kind = "answer" =>
        /\ Len(ret.value) = 12
        /\ \A m \in 1..12 :
              LET days == FetchedDays(m)
                  Reversed(d) == [i \in 1..3 |-> d[4 - i]]
              IN  ret.value[m] = << Reversed(days[1].gregorian.date),
                                    Reversed(days[1].hijri.date),
                                    Reversed(days[Len(days)].hijri.date) >>

C9_Witness ==
    /\ RunEnded
    /\ ret.kind = "answer"
    /\ \E i \in 1..Len(ret.value) : AsRow(ret.value[i]) \in hijri_calendar \ tableBefore
    /\ \E i \in 1..Len(ret.value) :
          /\ AsRow(ret.value[i]) \notin hijri_calendar
          /\ \E r \in tableBefore : r.month = ret.value[i][1]

\* C10: the monthly fetches of a run are issued one at a time in month order:
\* at most one is outstanding, and month m+1 is requested only after the
\* response for month m has arrived.
C10_FetchesSequential ==
    /\ Cardinality(outstanding) <= 1
    /\ Len(issued) <= Months
    /\ \A i \in 1..Len(issued) : issued[i] = i
    /\ Len(received) <= Len(issued)
    /\ Len(issued) <= Len(received) + 1
    /\ \A i \in 1..Len(received) : received[i] = issued[i]
    /\ outstanding # {} =>
          /\ Len(issued) = Len(received) + 1
          /\ outstanding = {issued[Len(issued)]}

C10_Witness ==
    /\ pc = "awaitFetch"
    /\ outstanding = {Months}
    /\ Len(issued) = Months
    /\ Len(received) = Months - 1

\* C17: a sync run ends at its first failing step and retries nothing: after
\* a failed fetch of month m no further month is requested and nothing was
\* written; after a failed write of month m no further write is attempted and
\* the rows written for the months before m stay; no month is requested twice.
C17_AbortsAtFirstFailure ==
    /\ \A i, j \in 1..Len(issued) : issued[i] = issued[j] => i = j
    /\ ret.kind = "error" =>
          /\ pc = "idle"
          /\ outstanding = {}
          /\ ret.error = "UpstreamCallFailed" =>
                /\ Len(issued) = Len(received) + 1
                /\ answer = <<>>
                /\ hijri_calendar = tableBefore
          /\ ret.error = "PersistenceWriteFailed" =>
                /\ Len(answer) >= 1
                /\ \A i \in 1..(Len(answer) - 1) :
                      \E r \in hijri_calendar : r.month = answer[i][1]
                /\ \A r \in hijri_calendar \ tableBefore :
                      \E i \in 1..(Len(answer) - 1) : r = AsRow(answer[i])

C17_Witness ==
    /\ RunEnded
    /\ ret = Thrown("PersistenceWriteFailed")
    /\ Len(answer) = 5
    /\ Cardinality(hijri_calendar \ tableBefore) = 4
    /\ Len(issued) = Months

-----------------------------------------------------------------------------
(* Further properties of the strategy resolution, under SpecResolve.          *)

\* C19 as stated: the method that executeStrategyByName passes to the By-City
\* fetch is an integer in 0..9 for every accepted name, also for a name whose
\* last character is no digit.
C19_MethodIsDigit ==
    req.op = "executeStrategyByName" =>
        \A i \in 1..Len(httpCalls) :
            /\ httpCalls[i].method.t = "number"
            /\ httpCalls[i].method.n \in 0..9

\* C21: a boundary write of a run is issued only after the run's twelve
\* fetches were answered, months 1 to 12 in order and none outstanding;
\* hence a run that ended with a failed fetch issued no write and left
\* hijri_calendar as it was when the run started.
C21_FetchesBeforeWrites ==
    /\ (pc \in {"write", "awaitWrite"} \/ answer # <<>> \/
        hijri_calendar # tableBefore) =>
          /\ received = [m \in 1..Months |-> m]
          /\ outstanding = {}
    /\ ret = Thrown("UpstreamCallFailed") =>
          /\ Len(received) < Months
          /\ answer = <<>>
          /\ hijri_calendar = tableBefore

C21_Witness ==
    /\ RunEnded
    /\ ret = Thrown("UpstreamCallFailed")
    /\ Len(received) = Months - 1
    /\ Len(issued) = Months
    /\ tableBefore # {}
    /\ hijri_calendar = tableBefore

-----------------------------------------------------------------------------
(* Properties of DbService, checked under SpecDb.                             *)

\* the rows the statements 1..n of the running call carry
RowsOf(stmts, n) == [i \in 1..n |-> stmts[i].row]

InsertFailed ==
    /\ dreq.op = "insertData"
    /\ derr \in {"PersistenceWriteFailed", "DuplicateKey"}

\* C11: when the INSERT of a record of insertData fails, the call ends with
\* that error: one statement was issued for each record up to the failing
\* one and none for a later record, and the rows of the records before the
\* failing one are stored, after the rows the table held before the call.
C11_AbortsAtFirstFailingRecord ==
    InsertFailed =>
        /\ dpc = "returned"
        /\ didx >= 1
        /\ Len(statements) = didx
        /\ \A i \in 1..didx :
              statements[i].row = CalendarRow(dreq.sid, dreq.cid, dreq.data[i])
        /\ athan_calendar = prev.calendar \o RowsOf(statements, didx - 1)

C11_Witness ==
    /\ InsertFailed
    /\ dpc = "returned"
    /\ Len(dreq.data) = 3
    /\ didx = 2
    /\ Len(statements) = 2
    /\ Len(athan_calendar) = Len(prev.calendar) + 1

InsertSucceeded ==
    /\ dreq.op = "insertData"
    /\ dpc = "returned"
    /\ derr = "none"

\* C12: when insertData has succeeded, the table holds the rows it held
\* before the call followed by one row per input record, in input order;
\* the row of a record carries the given strategy and city identifiers, the
\* record's day-month-year date as year-month-day, and a data text that
\* parses back to the record's timings; one statement was issued per record.
C12_RowsInInputOrder ==
    InsertSucceeded =>
        LET before == Len(prev.calendar)
        IN  /\ Len(athan_calendar) = before + Len(dreq.data)
            /\ SubSeq(athan_calendar, 1, before) = prev.calendar
            /\ Len(statements) = Len(dreq.data)
            /\ \A i \in 1..Len(dreq.data) :
                  LET row == athan_calendar[before + i]
                      rec == dreq.data[i]
                  IN  /\ row.athan_school_id = dreq.sid
                      /\ row.city_id = dreq.cid
                      /\ row.date = <<rec.date[3], rec.date[2], rec.date[1]>>
                      /\ JsonParse(row.data) = rec.timings
                      /\ statements[i].row = row

C12_Witness ==
    /\ InsertSucceeded
    /\ dreq.data = <<Day2, Day1>>
    /\ Len(athan_calendar) >= 2
    /\ athan_calendar[Len(athan_calendar)].date = <<2024, 7, 25>>
    /\ athan_calendar[Len(athan_calendar) - 1].date = <<2024, 7, 26>>
    /\ JsonParse(athan_calendar[Len(athan_calendar)].data) = Day1.timings

\* the running call repeats the call before it, which succeeded, and has
\* returned without a failure of the connection or of the upstream
RepeatedCall ==
    /\ dpc = "returned"
    /\ dreq.op \in {"insertData", "savePrayerCalculationMethods"}
    /\ prev.ok
    /\ prev.req = dreq
    /\ prev.catalog = catalog
    /\ derr \notin {"PersistenceWriteFailed", "UpstreamCallFailed",
                    "StorageUnavailable"}

\* C13: insertData called a second time with the same identifiers and
\* records, and savePrayerCalculationMethods called a second time with the
\* same catalog, succeed and leave the tables as the first call left them.
C13_InsertsIdempotent ==
    RepeatedCall =>
        /\ derr = "none"
        /\ athan_calendar = prev.calendar
        /\ athan_school = prev.school

SaveSucceeded ==
    /\ dreq.op = "savePrayerCalculationMethods"
    /\ dpc = "returned"
    /\ derr = "none"

\* the entries of a catalog that have a display name, in catalog order
Named(cat) == SelectSeq(cat, LAMBDA e : e.name.t # "undefined")

\* C14 as stated: when savePrayerCalculationMethods has succeeded, one INSERT
\* was issued per catalog entry with a display name, and the first column of
\* each row is the entry's numeric id, the same the label is built from.
C14_RowKeyedByMethodId ==
    SaveSucceeded =>
        /\ Len(statements) = Len(Named(catalog))
        /\ \A i \in 1..Len(statements) :
              LET entry == Named(catalog)[i]
                  row == statements[i].row
              IN  /\ row.name = ToStringChars(entry.id)
                  /\ row.startegy_name = AthanApiPrefix \o row.name
                  /\ row.description = entry.name.s

\* C14: when savePrayerCalculationMethods has succeeded, one INSERT was issued
\* per catalog entry with a display name, in catalog order, and none for an
\* entry without; the row of an entry is (the key the catalog holds the entry
\* under, "athan-api-" followed by the decimal digits of the entry's id, the
\* display name); the rows are appended to the table.
C14_RowKeyedByCatalogKey ==
    SaveSucceeded =>
        /\ Len(statements) = Len(Named(catalog))
        /\ \A i \in 1..Len(statements) :
              LET entry == Named(catalog)[i]
                  row == statements[i].row
              IN  /\ row.name = entry.key
                  /\ row.startegy_name = AthanApiPrefix \o DecimalChars(entry.id.n)
                  /\ row.description = entry.name.s
        /\ athan_school = prev.school \o RowsOf(statements, Len(statements))
        /\ methodsCalls = 1

C14_Witness ==
    /\ SaveSucceeded
    /\ Len(catalog) = 3
    /\ Len(statements) = 2
    /\ statements[1].row.name = <<"M", "W", "L">>
    /\ statements[1].row.startegy_name = AthanApiPrefix \o <<"3">>
    /\ statements[2].row.startegy_name = AthanApiPrefix \o <<"1", "2">>
    /\ Len(athan_school) = Len(prev.school) + 2

\* C15: a call of findCityIdByName, findStrategyIdByName,
\* savePrayerCalculationMethods or insertData made while there is no pool has
\* ended with StorageUnavailable, with no statement issued, no call of the
\* upstream made and no result, and the tables are as they were before it.
C15_NoPoolNoEffect ==
    (dreq.op # "none" /\ ~pool) =>
        /\ dpc = "returned"
        /\ derr = "StorageUnavailable"
        /\ dret = Null
        /\ statements = <<>>
        /\ methodsCalls = 0
        /\ athan_school = prev.school
        /\ athan_calendar = prev.calendar
        /\ city \in CityTables

C15_Witness ==
    /\ ~pool
    /\ dpc = "returned"
    /\ dreq.op = "savePrayerCalculationMethods"
    /\ derr = "StorageUnavailable"
    /\ prev.req.op = "insertData"
    /\ Len(prev.req.data) = 3
    /\ ~prev.ok
    /\ athan_calendar = <<>>

\* two arguments that differ at most in the case of their letters
SameButCase(x, y) ==
    /\ x.t = "string"
    /\ y.t = "string"
    /\ ToLowerCase(Chars(x.s)) = ToLowerCase(Chars(y.s))

CityFound ==
    /\ dreq.op = "findCityIdByName"
    /\ dpc = "returned"
    /\ derr = "none"

-----------------------------------------------------------------------------
(* The frame of the strategy resolution, under SpecResolve.                   *)

\* C20: AthanService.strategies is [ByCoordinates, ByCity] in every state, and
\* no step of getPrayerTimes or executeStrategyByName, to a result or to an
\* error, changes a storage table or issues a storage statement.
C20_EngineFrame ==
    /\ [](strategies = <<"ByCoordinates", "ByCity">>)
    /\ [][/\ city' = city
          /\ athan_school' = athan_school
          /\ athan_calendar' = athan_calendar
          /\ hijri_calendar' = hijri_calendar
          /\ statements' = statements]_vars

C20_Witness ==
    /\ epc = "returned"
    /\ req.op = "executeStrategyByName"
    /\ err = "none"
    /\ Len(httpCalls) = 1
    /\ strategies = <<"ByCoordinates", "ByCity">>
    /\ Len(city) = 3
    /\ statements = <<>>

-----------------------------------------------------------------------------
(* PrayerController.executeStrategy: the lookups, the strategy, the insert.  *)

\* number of requests explored
MaxFlows == 2

FlowNames ==
    { AthanApiPrefix \o <<"3">>,
      AthanApiPrefix \o <<"1", "2">>,
      <<"u", "n", "k", "n", "o", "w", "n", "-", "x">> }

\* JSON.parse(params)
FlowPayloads ==
    [ lat      : {Undefined},
      lon      : {Undefined},
      method   : {Undefined, Num(2)},
      duration : {Undefined},
      city     : {Undefined, Str("Rabat"), Str("Cairo")},
      country  : {Str("Morocco")} ]

\* table athan_school after savePrayerCalculationMethods has stored a catalog
SavedSchools ==
    LET named == Named(CHOOSE cat \in Catalogs : Len(cat) = 3)
    IN  [i \in 1..Len(named) |-> SchoolRow(named[i])]

Failed(e) == [kind |-> "error", calendar |-> <<>>, error |-> e]

Answered(cal) == [kind |-> "ok", calendar |-> cal, error |-> "none"]

\* executeStrategy(strategy, params), up to await findStrategyIdByName
ExecuteStrategy(strategy, data) ==
    /\ fpc = "idle"
    /\ epc = "idle"
    /\ flows < MaxFlows
    /\ flows' = flows + 1
    /\ flow' = [strategy |-> strategy, data |-> data]
    /\ strategy_id' = Null
    /\ city_id' = Null
    /\ calendar' = <<>>
    /\ response' = NoResponse
    /\ fetched' = NoFetch
    /\ fpc' = "findStrategy"
    /\ FindStrategyIdByName(strategy)
    /\ UNCHANGED <<engineVars, syncVars>>

\* const strategy_id = await this.dbService.findStrategyIdByName(strategy)
StrategyIdReturned ==
    /\ fpc = "findStrategy"
    /\ DbCallEnd
    /\ IF derr # "none"
       THEN /\ response' = Failed(derr)
            /\ fpc' = "done"
            /\ UNCHANGED strategy_id
       ELSE /\ strategy_id' = dret
            /\ fpc' = "callCity"
            /\ UNCHANGED response
    /\ UNCHANGED <<flow, city_id, calendar, fetched, flows, engineVars, syncVars>>

\* this.dbService.findCityIdByName(data['city'], data['country'])
FindCity ==
    /\ fpc = "callCity"
    /\ fpc' = "findCity"
    /\ FindCityIdByName(flow.data.city, flow.data.country)
    /\ UNCHANGED <<flow, strategy_id, city_id, calendar, response, fetched, flows,
                   engineVars, syncVars>>

\* const city_id = await ...
CityIdReturned ==
    /\ fpc = "findCity"
    /\ DbCallEnd
    /\ IF derr # "none"
       THEN /\ response' = Failed(derr)
            /\ fpc' = "done"
            /\ UNCHANGED city_id
       ELSE /\ city_id' = dret
            /\ fpc' = "callEngine"
            /\ UNCHANGED response
    /\ UNCHANGED <<flow, strategy_id, calendar, fetched, flows, engineVars, syncVars>>

\* this.athanService.executeStrategyByName(strategy, data)
CallEngine ==
    /\ fpc = "callEngine"
    /\ fpc' = "engine"
    /\ ExecuteStrategyByName(flow.strategy, flow.data)
    /\ UNCHANGED <<flow, strategy_id, city_id, calendar, response, fetched, flows>>

\* the upstream answers with a calendar
EngineReturn(cal) ==
    /\ fpc = "engine"
    /\ UpstreamReturn
    /\ calendar' = cal
    /\ fetched' = httpCalls[1]
    /\ UNCHANGED <<fpc, flow, strategy_id, city_id, response, flows>>

EngineFail ==
    /\ fpc = "engine"
    /\ UpstreamFail
    /\ UNCHANGED flowVars

\* const calendar = await ...
CalendarReturned ==
    /\ fpc = "engine"
    /\ CallEnd
    /\ IF err # "none"
       THEN /\ response' = Failed(err)
            /\ fpc' = "done"
       ELSE /\ fpc' = "respond"
            /\ UNCHANGED response
    /\ UNCHANGED <<flow, strategy_id, city_id, calendar, fetched, flows>>

\* a condition that looks at the calendar only
InsertWhenFetched(sid, cid, cal) == Len(cal) > 0

\* if (strategy_id !== null && city_id !== null && calendar.length > 0)
ShouldInsert(sid, cid, cal) == sid # Null /\ cid # Null /\ Len(cal) > 0

\* if (...) { this.dbService.insertData(strategy_id, city_id, calendar) }
\* return calendar;  -- the promise of insertData is not awaited
Respond ==
    /\ fpc = "respond"
    /\ IF ShouldInsert(strategy_id, city_id, calendar)
       THEN InsertData(strategy_id.n, city_id.n, calendar)
       ELSE UNCHANGED dbVars
    /\ response' = Answered(calendar)
    /\ fpc' = "done"
    /\ UNCHANGED <<flow, strategy_id, city_id, calendar, fetched, flows, engineVars,
                   syncVars>>

\* the detached insertData ends: nobody takes its result or its error
DetachedEnd ==
    /\ fpc \in {"done", "idle"}
    /\ DbCallEnd
    /\ UNCHANGED <<flowVars, engineVars, syncVars>>

\* the response is sent; the next request is taken when storage is idle
RequestEnd ==
    /\ fpc = "done"
    /\ fpc' = "idle"
    /\ UNCHANGED <<flow, strategy_id, city_id, calendar, response, fetched, flows,
                   engineVars, syncVars, dbVars>>

\* the module is initialised; the method catalog may have been saved
InitFlow ==
    /\ InitFrames
    /\ pool = TRUE
    /\ city \in CityTables
    /\ athan_school \in {<<>>, SavedSchools}
    /\ uniqueKeys \in BOOLEAN

NextFlow ==
    \/ \E strategy \in FlowNames, data \in FlowPayloads :
          ExecuteStrategy(strategy, data)
    \/ SelectDone /\ UNCHANGED <<engineVars, syncVars, flowVars>>
    \/ SelectFail /\ UNCHANGED <<engineVars, syncVars, flowVars>>
    \/ StrategyIdReturned
    \/ FindCity
    \/ CityIdReturned
    \/ CallEngine
    \/ \E cal \in CalendarInputs : EngineReturn(cal)
    \/ EngineFail
    \/ CalendarReturned
    \/ Respond
    \/ InsertNext /\ UNCHANGED <<engineVars, syncVars, flowVars>>
    \/ InsertDone /\ UNCHANGED <<engineVars, syncVars, flowVars>>
    \/ InsertFail /\ UNCHANGED <<engineVars, syncVars, flowVars>>
    \/ DetachedEnd
    \/ RequestEnd

SpecFlow == InitFlow /\ [][NextFlow]_vars

\* C16: when executeStrategy has answered a request for which it called
\* insertData, that call has ended, and if it ended with an error the answer
\* is that error.
C16_ResponseAfterBatch ==
    (fpc = "done" /\ dreq.op = "insertData") =>
        /\ dpc = "returned"
        /\ derr # "none" => response = Failed(derr)

\* C22: in executeStrategy (a) the upstream request is issued only after both
\* lookups have returned; (b) insertData is called, and athan_calendar
\* changes, only with both identifiers not null and a non-empty calendar,
\* which are its arguments; (c) a request answered after a lookup returned
\* null is answered with the fetched calendar, and no insertData was called
\* and athan_calendar is as the lookups left it; (d) no step changes table
\* city or table athan_school.
C22_LookupsThenFetchThenWrite ==
    /\ [](/\ httpCalls # <<>> =>
                /\ fpc = "engine"
                /\ dpc = "idle"
                /\ prev.req.op = "findCityIdByName"
                /\ prev.ok
                /\ city_id = prev.ret
          /\ dreq.op = "insertData" =>
                /\ strategy_id # Null
                /\ city_id # Null
                /\ Len(calendar) > 0
                /\ dreq.sid = strategy_id.n
                /\ dreq.cid = city_id.n
                /\ dreq.data = calendar
                /\ response = Answered(calendar)
          /\ (fpc = "done" /\ response.kind = "ok") =>
                /\ response.calendar = calendar
                /\ (strategy_id = Null \/ city_id = Null) =>
                      /\ dreq.op = "none"
                      /\ athan_calendar = prev.calendar)
    /\ [][/\ city' = city
          /\ athan_school' = athan_school
          /\ athan_calendar' # athan_calendar => dreq.op = "insertData"]_vars

C22_Witness ==
    /\ fpc = "done"
    /\ response.kind = "ok"
    /\ Len(response.calendar) = 3
    /\ strategy_id # Null
    /\ city_id = Null
    /\ dreq.op = "none"
    /\ athan_calendar = <<>>

\* C23: when executeStrategy has called insertData, the athan_school row the
\* calendar rows are stored under is labelled "athan-api-" followed by the
\* decimal digits of the method the calendar was fetched with.
C23_LabelIsFetchedMethod ==
    (dreq.op = "insertData" /\ dreq.sid \in 1..Len(athan_school)) =>
        /\ fetched.fn = "getByCity"
        /\ fetched.method.t = "number"
        /\ athan_school[dreq.sid].startegy_name =
              AthanApiPrefix \o DecimalChars(fetched.method.n)

====
